---- MODULE Spec2Model ----
(***************************************************************************)
(* KriptikOrchestrator (server/src/services/cloud/modal-orchestrator.py). *)
(*                                                                         *)
(* One orchestrator instance is followed through its calls of              *)
(* run_orchestration.  The method is one coroutine: every step below is    *)
(* one stretch of its body between two awaits of a collaborator, taken in  *)
(* program order.  The collaborators behind create_sandbox, execute_task,  *)
(* verify_intent_satisfaction and terminate_sandbox are seams of the       *)
(* execution substrate: in the model each call returns any value of the    *)
(* shape run_orchestration reads, or raises.                               *)
(***************************************************************************)
EXTENDS Integers, Sequences, FiniteSets, TLC

\* ------------------------------------------------------------------ bounds
MaxTasks == 3
MaxPhases == 3
MaxFeatures == 2
MaxAssignTasks == 4
MaxSandboxes == 3
MaxEmits == 2
MaxRuns == 2
MaxCarry == 1

\* --------------------------------------------------------------- constants
DefaultMaxParallel == 5
DefaultBudget == 100

\* ------------------------------------------------------------------- state
VARIABLES
  pc,                 \* position of the coroutine in run_orchestration
  runs,               \* calls of run_orchestration this instance has received
  build_id,           \* self.build_id
  webhook_url,        \* self.webhook_url
  completed_tasks,    \* self.completed_tasks
  failed_tasks,       \* self.failed_tasks
  config,             \* the call's config argument (after "config or {}")
  plan,               \* the call's implementation_plan argument
  tasks,              \* local tasks
  main_sandbox,       \* local main_sandbox
  build_sandboxes,    \* local build_sandboxes
  task_assignments,   \* local task_assignments
  si,                 \* outer loop of phase 5: index into zip(build_sandboxes, task_assignments)
  ti,                 \* inner loop of phase 5: index into assigned_tasks
  total_cost,         \* local total_cost
  all_results,        \* local all_results
  merge_results,      \* local merge_results
  verification,       \* local verification
  ci,                 \* cleanup loop: index into build_sandboxes
  events,             \* the calls of _send_webhook made by this run, in order
  created,            \* substrate: sandbox ids this run's create calls returned
  terminated,         \* substrate: sandbox ids this run called terminate on
  returned,           \* the value the call returned
  delivery,           \* the delivery attempt of the _send_webhook call followed in SpecWebhook
  posts,              \* substrate: the events handed to client.post, in order (SpecWebhook)
  deadline_passed,    \* the clock: time.time() - self.start_time has reached the timeout
  ACTIVE_SANDBOXES,   \* sandbox bridge: the registry of the bridge process
  request,            \* sandbox bridge: the request being handled, or the last one handled
  response,           \* sandbox bridge: the response to the last request handled
  lifecycle,          \* sandbox bridge: per sandbox id, its latest successful create or terminate
  handled,            \* sandbox bridge: the number of requests handled so far
  batch_tasks,        \* execute_batch_tasks: the argument tasks
  batch_results,      \* execute_batch_tasks: local results
  bi                  \* execute_batch_tasks: index of the for loop

selfVars == <<build_id, completed_tasks, failed_tasks>>
argVars == <<config, plan>>
localVars == <<tasks, main_sandbox, build_sandboxes, task_assignments, si, ti,
               total_cost, all_results, merge_results, verification, ci>>
substrateVars == <<created, terminated>>
webhookVars == <<webhook_url, delivery, posts>>
clockVars == <<deadline_passed>>
bridgeVars == <<ACTIVE_SANDBOXES, request, response, lifecycle, handled>>
batchVars == <<batch_tasks, batch_results, bi>>
otherModules == <<bridgeVars, batchVars>>
\* The variables of run_orchestration and _send_webhook but pc.
orchestratorVars ==
  <<runs, selfVars, argVars, localVars, events, substrateVars, returned,
    webhookVars, clockVars>>
vars == <<pc, orchestratorVars, otherModules>>

\* A name that is not bound yet / a call that has not returned.
Unset == [unset |-> TRUE]

\* dict.get(key, default)
Get(d, key, default) == IF key \in DOMAIN d THEN d[key] ELSE default

\* ------------------------------------------------------------------ inputs
\* Plan entries (phases, features) are dicts with or without an "id"; an entry
\* that is not a dict is the record NonDict.
NonDict == [nondict |-> TRUE]
IsDict(e) == "nondict" \notin DOMAIN e
NoIdEntry == [name |-> "n"]
IdEntry(i) == [name |-> "n", id |-> i]

RECURSIVE Repeat(_, _)
Repeat(e, n) == IF n = 0 THEN <<>> ELSE Append(Repeat(e, n - 1), e)

\* The plans a run is called with: p phases or f features without ids, phases
\* together with a feature, explicit ids (one of them the fallback of the
\* next position), and a malformed plan.
RunPlans ==
  {[phases |-> Repeat(NoIdEntry, p)] : p \in 0..MaxTasks}
    \cup {[features |-> Repeat(NoIdEntry, f)] : f \in 1..(MaxTasks - 1)}
    \cup {[phases |-> <<NoIdEntry>>, features |-> <<NoIdEntry>>],
          [phases |-> <<IdEntry("phase-1"), NoIdEntry>>],
          [phases |-> <<NoIdEntry, NonDict>>]}

\* The config argument: absent keys take the defaults of lines 122-124.
RunConfigs ==
  {[budgetLimitUsd |-> 2],
   [maxParallelSandboxes |-> 0],
   [maxParallelSandboxes |-> 1, budgetLimitUsd |-> 2],
   [maxParallelSandboxes |-> 2, budgetLimitUsd |-> 2],
   [maxParallelSandboxes |-> 2],
   [k \in {} |-> 0]}

\* The webhook_url argument.
RunWebhookUrls == {"https://hooks.example/progress"}

max_parallel_sandboxes == Get(config, "maxParallelSandboxes", DefaultMaxParallel)
budget_limit_usd == Get(config, "budgetLimitUsd", DefaultBudget)

\* What execute_task may return: success and, optionally, a cost.
TaskCosts == {1}
ExecResults ==
  {[success |-> b] : b \in BOOLEAN}
    \cup {[success |-> b, cost |-> c] : b \in BOOLEAN, c \in TaskCosts}

\* What verify_intent_satisfaction may return.
Verifications == {[satisfied |-> TRUE, score |-> 95], [satisfied |-> FALSE, score |-> 40]}

\* -------------------------------------------------------- _partition_tasks
\* A variant of lines 293 and 304 whose fallback id counts positions from 1.
RECURSIVE PartitionLoop_OneBased(_, _, _, _)
PartitionLoop_OneBased(entries, type, prefix, acc) ==
  IF entries = <<>> THEN acc
  ELSE PartitionLoop_OneBased(Tail(entries), type, prefix,
         Append(acc, [id |-> Get(Head(entries), "id", prefix \o ToString(Len(acc) + 1)),
                      type |-> type]))

RECURSIVE PartitionLoop(_, _, _, _)
PartitionLoop(entries, type, prefix, acc) ==
  IF entries = <<>> THEN acc
  ELSE PartitionLoop(Tail(entries), type, prefix,
         Append(acc, [id |-> Get(Head(entries), "id", prefix \o ToString(Len(acc))),
                      type |-> type]))

AllDicts(entries) == \A i \in 1..Len(entries) : IsDict(entries[i])

\* A variant without the "if not tasks" test of line 301: features are
\* extracted after the phases.
partition_tasks_KeepsFeatures(p) ==
  PartitionLoop(Get(p, "features", <<>>), "feature", "feature-",
                PartitionLoop(Get(p, "phases", <<>>), "phase", "phase-", <<>>))

partition_tasks(p) ==
  LET fromPhases == PartitionLoop(Get(p, "phases", <<>>), "phase", "phase-", <<>>)
  IN  IF fromPhases # <<>> THEN fromPhases
      ELSE PartitionLoop(Get(p, "features", <<>>), "feature", "feature-", <<>>)

\* phase.get / feature.get on an entry that is no dict raises AttributeError.
PartitionRaises(p) ==
  \/ ~AllDicts(Get(p, "phases", <<>>))
  \/ Get(p, "phases", <<>>) = <<>> /\ ~AllDicts(Get(p, "features", <<>>))

\* ----------------------------------------------------------- _assign_tasks
\* A variant of line 322 that takes the 1-based position modulo N.
RECURSIVE AssignLoop_Shifted(_, _, _, _)
AssignLoop_Shifted(ts, i, n, assignments) ==
  IF i > Len(ts) THEN assignments
  ELSE AssignLoop_Shifted(ts, i + 1, n,
         [assignments EXCEPT ![(i % n) + 1] = Append(@, ts[i])])

\* A variant of line 323 that stores the task instead of appending it.
RECURSIVE AssignLoop_Overwrites(_, _, _, _)
AssignLoop_Overwrites(ts, i, n, assignments) ==
  IF i > Len(ts) THEN assignments
  ELSE AssignLoop_Overwrites(ts, i + 1, n,
         [assignments EXCEPT ![((i - 1) % n) + 1] = <<ts[i]>>])

RECURSIVE AssignLoop(_, _, _, _)
AssignLoop(ts, i, n, assignments) ==
  IF i > Len(ts) THEN assignments
  ELSE AssignLoop(ts, i + 1, n,
         [assignments EXCEPT ![((i - 1) % n) + 1] = Append(@, ts[i])])

assign_tasks(ts, sandboxes) ==
  AssignLoop(ts, 1, Len(sandboxes), [j \in 1..Len(sandboxes) |-> <<>>])

\* i % len(sandboxes) with no sandboxes raises ZeroDivisionError.
AssignRaises(ts, sandboxes) == Len(ts) > 0 /\ Len(sandboxes) = 0

\* --------------------------------------------------------- _process_merges
\* A variant of lines 371-376 without the test of line 372.
RECURSIVE process_merges_All(_)
process_merges_All(results) ==
  IF results = <<>> THEN <<>>
  ELSE <<[taskId |-> Head(results).taskId, merged |-> TRUE]>>
         \o process_merges_All(Tail(results))

RECURSIVE process_merges(_)
process_merges(results) ==
  IF results = <<>> THEN <<>>
  ELSE IF Get(Head(results), "success", FALSE)
       THEN <<[taskId |-> Head(results).taskId, merged |-> TRUE]>>
              \o process_merges(Tail(results))
       ELSE process_merges(Tail(results))

\* ----------------------------------------------------------- _send_webhook
\* Line 281.
WebhookTimeout == 10

\* What client.post may raise when a delivery fails or times out; all are
\* subclasses of Exception.
DeliveryErrors ==
  {[name |-> "ConnectError", base |-> "Exception"],
   [name |-> "TimeoutException", base |-> "Exception"],
   [name |-> "TypeError", base |-> "Exception"]}
\* What client.post may return: the response's status, which is not read.
DeliveryStatuses == {200, 500}

\* A variant of line 283 that handles the timeout only.
send_webhook_except_TimeoutOnly(exc) ==
  IF exc.name = "TimeoutException" THEN "send_returned" ELSE "send_raised"

\* Lines 283-284: "except Exception" handles the error and prints it, and the
\* function returns; any other error leaves the function.
send_webhook_except(exc) ==
  IF exc.base = "Exception" THEN "send_returned" ELSE "send_raised"

\* A call of _send_webhook as the run sees it: one more entry in the log.
Emit(log, event, data) == Append(log, [event |-> event, data |-> data])

\* --------------------------------------------------------- _create_sandbox
SandboxId(bid, suffix) == bid \o "-" \o suffix
create_sandbox(sandbox_id, is_main) ==
  [id |-> sandbox_id, status |-> "running",
   tunnelUrl |-> "https://" \o sandbox_id \o ".modal.run", isMain |-> is_main]

Min(a, b) == IF a < b THEN a ELSE b

\* The sandbox bridge process as loaded (ACTIVE_SANDBOXES = {}, line 104), no
\* request read, and execute_batch_tasks not called.
NoSandboxes == [k \in {} |-> 0]
OtherModulesIdle ==
  /\ ACTIVE_SANDBOXES = NoSandboxes
  /\ request = Unset
  /\ response = Unset
  /\ lifecycle = NoSandboxes
  /\ handled = 0
  /\ batch_tasks = <<>>
  /\ batch_results = <<>>
  /\ bi = 1

\* -------------------------------------------------------------------- Init
\* The instance after __init__; no call of run_orchestration yet.
Init ==
  /\ pc = "idle"
  /\ runs = 0
  /\ build_id = ""
  /\ webhook_url = ""
  /\ delivery = Unset
  /\ posts = <<>>
  /\ deadline_passed = FALSE
  /\ OtherModulesIdle
  /\ completed_tasks = <<>>
  /\ failed_tasks = <<>>
  /\ config = [k \in {} |-> 0]
  /\ plan = [k \in {} |-> 0]
  /\ tasks = <<>>
  /\ main_sandbox = Unset
  /\ build_sandboxes = <<>>
  /\ task_assignments = <<>>
  /\ si = 1
  /\ ti = 1
  /\ total_cost = 0
  /\ all_results = <<>>
  /\ merge_results = <<>>
  /\ verification = Unset
  /\ ci = 1
  /\ events = <<>>
  /\ created = <<>>
  /\ terminated = <<>>
  /\ returned = Unset

\* ------------------------------------------------- the except clause (253-264)
error_result(e) ==
  [success |-> FALSE,
   buildId |-> build_id,
   error |-> e,
   tasksCompleted |-> Len(completed_tasks),
   tasksFailed |-> Len(failed_tasks)]

\* A variant of the handler that reports the failure twice.
Except_ReportsTwice(e) ==
  /\ events' = Emit(Emit(events, "failed", error_result(e)), "failed", error_result(e))
  /\ returned' = error_result(e)
  /\ pc' = "done"
  /\ UNCHANGED <<otherModules, clockVars, webhookVars, runs, selfVars, argVars, localVars, substrateVars>>

\* A variant of the handler that starts the run over instead of ending it.
Except_StartsOver(e) ==
  /\ pc' = "partition"
  /\ UNCHANGED <<otherModules, clockVars, webhookVars, runs, selfVars, argVars, localVars, events,
                 substrateVars, returned>>

\* A variant of the handler that ends with "raise" instead of "return".
Except_Reraises(e) ==
  /\ events' = Emit(events, "failed", error_result(e))
  /\ pc' = "raised"
  /\ UNCHANGED <<otherModules, clockVars, webhookVars, runs, selfVars, argVars, localVars,
                 substrateVars, returned>>

\* An exception e raised inside the try block: the handler builds the error
\* result, sends "failed" and returns; nothing else is touched.
Except(e) ==
  /\ events' = Emit(events, "failed", error_result(e))
  /\ returned' = error_result(e)
  /\ pc' = "done"
  /\ UNCHANGED <<otherModules, clockVars, webhookVars, runs, selfVars, argVars, localVars, substrateVars>>

\* --------------------------------------------------------- run_orchestration
\* Lines 117-132: the call binds its arguments and sends "started".  The
\* instance is new (idle) or has returned from an earlier call; its
\* completed_tasks and failed_tasks are whatever the earlier calls left.
RunOrchestration ==
  /\ pc \in {"idle", "done"}
  /\ runs < MaxRuns
  /\ Len(completed_tasks) + Len(failed_tasks) <= MaxCarry
  /\ \E p \in RunPlans, c \in RunConfigs :
       /\ plan' = p
       /\ config' = c
       /\ events' = Emit(<<>>, "started", [buildId |-> "b" \o ToString(runs + 1), config |-> c])
  /\ runs' = runs + 1
  /\ build_id' = "b" \o ToString(runs + 1)
  /\ webhook_url' \in RunWebhookUrls
  /\ tasks' = <<>>
  /\ main_sandbox' = Unset
  /\ build_sandboxes' = <<>>
  /\ task_assignments' = <<>>
  /\ si' = 1
  /\ ti' = 1
  /\ total_cost' = 0
  /\ all_results' = <<>>
  /\ merge_results' = <<>>
  /\ verification' = Unset
  /\ ci' = 1
  /\ created' = <<>>
  /\ terminated' = <<>>
  /\ returned' = Unset
  /\ pc' = "partition"
  /\ deadline_passed' = FALSE
  /\ UNCHANGED <<otherModules, delivery, posts, completed_tasks, failed_tasks>>

\* Lines 134-139.
Partition ==
  /\ pc = "partition"
  /\ \/ /\ ~PartitionRaises(plan)
        /\ tasks' = partition_tasks(plan)
        /\ events' = Emit(events, "tasksPartitioned", [taskCount |-> Len(tasks')])
        /\ pc' = "create_main"
        /\ UNCHANGED <<otherModules, clockVars, webhookVars, runs, selfVars, argVars, main_sandbox, build_sandboxes,
                       task_assignments, si, ti, total_cost, all_results,
                       merge_results, verification, ci, substrateVars, returned>>
     \/ /\ PartitionRaises(plan)
        /\ Except("AttributeError")

\* Lines 141-152.
CreateMain ==
  /\ pc = "create_main"
  /\ \/ /\ main_sandbox' = create_sandbox(SandboxId(build_id, "main"), TRUE)
        /\ created' = Append(created, main_sandbox'.id)
        /\ events' = Emit(events, "sandboxCreated",
                          [sandboxId |-> main_sandbox'.id, type |-> "main",
                           tunnelUrl |-> Get(main_sandbox', "tunnelUrl", Unset)])
        /\ pc' = "create_build"
        /\ UNCHANGED <<otherModules, clockVars, webhookVars, runs, selfVars, argVars, tasks, build_sandboxes,
                       task_assignments, si, ti, total_cost, all_results,
                       merge_results, verification, ci, terminated, returned>>
     \/ Except("create main sandbox failed")

\* A variant of line 155 that spawns one build sandbox per task.
build_sandbox_count_PerTask == Len(tasks)

\* Line 155.
build_sandbox_count == Min(max_parallel_sandboxes, Len(tasks))

\* Lines 158-170: one iteration of the spawn loop.
CreateBuild ==
  /\ pc = "create_build"
  /\ Len(build_sandboxes) < build_sandbox_count
  /\ \/ LET i == Len(build_sandboxes)
            sandbox == create_sandbox(SandboxId(build_id, "build-" \o ToString(i)), FALSE)
        IN  /\ build_sandboxes' = Append(build_sandboxes, sandbox)
            /\ created' = Append(created, sandbox.id)
            /\ events' = Emit(events, "sandboxCreated",
                              [sandboxId |-> sandbox.id, type |-> "build", index |-> i])
            /\ UNCHANGED <<otherModules, clockVars, webhookVars, pc, runs, selfVars, argVars, tasks, main_sandbox,
                           task_assignments, si, ti, total_cost, all_results,
                           merge_results, verification, ci, terminated, returned>>
     \/ Except("create build sandbox failed")

\* The first position >= s of zip(build_sandboxes, task_assignments) whose
\* task list is not empty (the inner for loop of an empty list runs no step).
RECURSIVE FirstWithTasks(_, _)
FirstWithTasks(assignments, s) ==
  IF s > Len(assignments) THEN s
  ELSE IF Len(assignments[s]) > 0 THEN s
  ELSE FirstWithTasks(assignments, s + 1)

\* Lines 172-176, reached when the spawn loop is exhausted.
Assign ==
  /\ pc = "create_build"
  /\ Len(build_sandboxes) >= build_sandbox_count
  /\ \/ /\ ~AssignRaises(tasks, build_sandboxes)
        /\ task_assignments' = assign_tasks(tasks, build_sandboxes)
        /\ events' = Emit(events, "tasksAssigned", [assignments |-> task_assignments'])
        /\ si' = FirstWithTasks(task_assignments', 1)
        /\ ti' = 1
        /\ pc' = "loop"
        /\ UNCHANGED <<otherModules, clockVars, webhookVars, runs, selfVars, argVars, tasks, main_sandbox, build_sandboxes,
                       total_cost, all_results, merge_results, verification, ci,
                       substrateVars, returned>>
     \/ /\ AssignRaises(tasks, build_sandboxes)
        /\ Except("ZeroDivisionError")

\* The task the inner loop is at, and its sandbox.
current_sandbox == build_sandboxes[si]
\* A variant of line 183 that walks the sandbox's list from its end.
current_task_Reversed ==
  task_assignments[si][Len(task_assignments[si]) - ti + 1]

\* Line 183.
current_task == task_assignments[si][ti]

\* Lines 183-188: the inner loop takes its next task and sends "taskStarted";
\* the coroutine is then inside the execute_task call (pc = "exec").
TaskStarted ==
  /\ pc = "loop"
  /\ si <= Len(task_assignments)
  /\ events' = Emit(events, "taskStarted",
                    [sandboxId |-> current_sandbox.id, taskId |-> current_task.id])
  /\ pc' = "exec"
  /\ UNCHANGED <<otherModules, clockVars, webhookVars, runs, selfVars, argVars, localVars, substrateVars, returned>>

\* A variant of line 192 that counts the cost of successful tasks only.
AddCost_SuccessOnly(total, result) ==
  IF result.success THEN total + Get(result, "cost", 0) ELSE total

\* Line 192.
AddCost(total, result) == total + Get(result, "cost", 0)

\* A variant of line 213 that compares with >.
BudgetReached_Strict(cost, limit) == cost > limit

\* Line 213.
BudgetReached(cost, limit) == cost >= limit

\* Lines 194-208: the event sent for a result.
TaskEvent(log, result) ==
  IF result.success
  THEN Emit(log, "taskCompleted",
            [sandboxId |-> current_sandbox.id, taskId |-> current_task.id,
             cost |-> Get(result, "cost", 0)])
  ELSE Emit(log, "taskFailed",
            [sandboxId |-> current_sandbox.id, taskId |-> current_task.id,
             error |-> Get(result, "error", "Unknown error")])

\* Lines 212-218: the budget check after a task; on an exceeded budget the
\* event is sent and "break" leaves the inner loop only.
AfterBudgetCheck(log, cost) ==
  IF BudgetReached(cost, budget_limit_usd)
  THEN Emit(log, "budgetExceeded", [currentCost |-> cost, budgetLimit |-> budget_limit_usd])
  ELSE log

\* Where the two loops stand after the task at (si, ti): "break" and the end of
\* the list both go on with the next sandbox of the outer loop.
NextSandboxAfter(cost) ==
  IF BudgetReached(cost, budget_limit_usd) \/ ti >= Len(task_assignments[si])
  THEN FirstWithTasks(task_assignments, si + 1)
  ELSE si

\* A variant of the inner loop that does not move on to the next task.
NextTaskAfter_Repeats(cost) ==
  IF BudgetReached(cost, budget_limit_usd) \/ ti >= Len(task_assignments[si])
  THEN 1
  ELSE ti

NextTaskAfter(cost) ==
  IF BudgetReached(cost, budget_limit_usd) \/ ti >= Len(task_assignments[si])
  THEN 1
  ELSE ti + 1

\* Lines 191-218: execute_task returns, the result is recorded and reported,
\* the budget is checked; or execute_task raises.
ExecuteTask ==
  /\ pc = "exec"
  /\ \/ \E r \in ExecResults :
          LET result == [k \in DOMAIN r \cup {"taskId", "sandboxId"} |->
                           IF k = "taskId" THEN current_task.id
                           ELSE IF k = "sandboxId" THEN current_sandbox.id
                           ELSE r[k]]
              cost == AddCost(total_cost, result)
          IN  /\ total_cost' = cost
              /\ completed_tasks' = IF result.success
                                    THEN Append(completed_tasks, current_task.id)
                                    ELSE completed_tasks
              /\ failed_tasks' = IF result.success
                                 THEN failed_tasks
                                 ELSE Append(failed_tasks, current_task.id)
              /\ all_results' = Append(all_results, result)
              /\ events' = AfterBudgetCheck(TaskEvent(events, result), cost)
              /\ si' = NextSandboxAfter(cost)
              /\ ti' = NextTaskAfter(cost)
              /\ pc' = "loop"
              /\ UNCHANGED <<otherModules, clockVars, webhookVars, runs, build_id, argVars, tasks, main_sandbox,
                             build_sandboxes, task_assignments, merge_results,
                             verification, ci, substrateVars, returned>>
     \/ Except("execute task failed")

\* Lines 220-221, reached when the outer loop is exhausted.
ProcessMerges ==
  /\ pc = "loop"
  /\ si > Len(task_assignments)
  /\ merge_results' = process_merges(all_results)
  /\ pc' = "verify"
  /\ UNCHANGED <<otherModules, clockVars, webhookVars, runs, selfVars, argVars, tasks, main_sandbox, build_sandboxes,
                 task_assignments, si, ti, total_cost, all_results, verification,
                 ci, events, substrateVars, returned>>

\* Lines 223-227.
Verify ==
  /\ pc = "verify"
  /\ \/ /\ verification' \in Verifications
        /\ ci' = 1
        /\ pc' = "cleanup"
        /\ UNCHANGED <<otherModules, clockVars, webhookVars, runs, selfVars, argVars, tasks, main_sandbox, build_sandboxes,
                       task_assignments, si, ti, total_cost, all_results,
                       merge_results, events, substrateVars, returned>>
     \/ Except("verification failed")

\* A variant of the cleanup loop that tears the main sandbox down as well.
Terminate_MainToo ==
  /\ pc = "cleanup"
  /\ ci <= Len(build_sandboxes)
  /\ \/ /\ terminated' = IF ci = 1
                         THEN <<main_sandbox.id, build_sandboxes[ci].id>>
                         ELSE Append(terminated, build_sandboxes[ci].id)
        /\ ci' = ci + 1
        /\ UNCHANGED <<otherModules, clockVars, webhookVars, pc, runs, selfVars, argVars, tasks, main_sandbox,
                       build_sandboxes, task_assignments, si, ti, total_cost,
                       all_results, merge_results, verification, events, created,
                       returned>>
     \/ Except("terminate failed")

\* Lines 232-234: one iteration of the cleanup loop.
Terminate ==
  /\ pc = "cleanup"
  /\ ci <= Len(build_sandboxes)
  /\ \/ /\ terminated' = Append(terminated, build_sandboxes[ci].id)
        /\ ci' = ci + 1
        /\ UNCHANGED <<otherModules, clockVars, webhookVars, pc, runs, selfVars, argVars, tasks, main_sandbox,
                       build_sandboxes, task_assignments, si, ti, total_cost,
                       all_results, merge_results, verification, events, created,
                       returned>>
     \/ Except("terminate failed")

\* A variant of lines 236-248 in which a failed task also clears the success flag.
final_result_TaskOutcomes ==
  [success |-> verification.satisfied /\ failed_tasks = <<>>,
   buildId |-> build_id,
   mainSandboxUrl |-> Get(main_sandbox, "tunnelUrl", Unset),
   costUsd |-> total_cost,
   tasksCompleted |-> Len(completed_tasks),
   tasksFailed |-> Len(failed_tasks),
   verificationScore |-> Get(verification, "score", 0)]

\* Lines 236-248.
final_result ==
  [success |-> verification.satisfied,
   buildId |-> build_id,
   mainSandboxUrl |-> Get(main_sandbox, "tunnelUrl", Unset),
   costUsd |-> total_cost,
   tasksCompleted |-> Len(completed_tasks),
   tasksFailed |-> Len(failed_tasks),
   verificationScore |-> Get(verification, "score", 0)]

\* A variant of lines 250-251 in which the "completed" delivery raises into the
\* except clause (a _send_webhook that does not swallow its errors).
Complete_SendRaises ==
  /\ pc = "cleanup"
  /\ ci > Len(build_sandboxes)
  /\ events' = Emit(Emit(events, "completed", final_result),
                    "failed", error_result("webhook failed"))
  /\ returned' = error_result("webhook failed")
  /\ pc' = "done"
  /\ UNCHANGED <<otherModules, clockVars, webhookVars, runs, selfVars, argVars, localVars, substrateVars>>

\* A variant of lines 232-251 that sends completed without the teardown.
Complete_BeforeTeardown ==
  /\ pc = "cleanup"
  /\ events' = Emit(events, "completed", final_result)
  /\ returned' = final_result
  /\ pc' = "done"
  /\ UNCHANGED <<otherModules, clockVars, webhookVars, runs, selfVars, argVars, localVars, substrateVars>>

\* Lines 236-251, reached when the cleanup loop is exhausted.
Complete ==
  /\ pc = "cleanup"
  /\ ci > Len(build_sandboxes)
  /\ events' = Emit(events, "completed", final_result)
  /\ returned' = final_result
  /\ pc' = "done"
  /\ UNCHANGED <<otherModules, clockVars, webhookVars, runs, selfVars, argVars, localVars, substrateVars>>

Next ==
  \/ RunOrchestration
  \/ Partition
  \/ CreateMain
  \/ CreateBuild
  \/ Assign
  \/ TaskStarted
  \/ ExecuteTask
  \/ ProcessMerges
  \/ Verify
  \/ Terminate
  \/ Complete

Spec == Init /\ [][Next]_vars

\* ============================================ _partition_tasks on its own
\* One call of _partition_tasks(plan) for every plan of up to MaxPhases
\* phases and MaxFeatures features, with or without the "phases" and
\* "features" keys, entries with and without an id, and entries that are no
\* dicts.  The call is made on a new instance; tasks holds what it returned.
SeqsUpTo(S, n) == UNION {[1..k -> S] : k \in 0..n}
PhaseEntries == {NoIdEntry, IdEntry("auth"), IdEntry("phase-0"), NonDict}
FeatureEntries == {NoIdEntry, IdEntry("login")}
PartitionPlans ==
  {[phases |-> ph, features |-> fe] :
     ph \in SeqsUpTo(PhaseEntries, MaxPhases), fe \in SeqsUpTo(FeatureEntries, MaxFeatures)}
    \cup {[phases |-> ph] : ph \in SeqsUpTo(PhaseEntries, MaxPhases)}
    \cup {[features |-> fe] : fe \in SeqsUpTo(FeatureEntries, MaxFeatures)}

\* Everything but pc, plan and tasks.
partitionFrame ==
  <<runs, selfVars, config, main_sandbox, build_sandboxes, task_assignments, si, ti,
    total_cost, all_results, merge_results, verification, ci, events, substrateVars,
    returned, webhookVars, clockVars, otherModules>>

PartitionInit ==
  /\ pc = "partition_call"
  /\ plan \in PartitionPlans
  /\ runs = 0
  /\ build_id = ""
  /\ webhook_url = ""
  /\ delivery = Unset
  /\ posts = <<>>
  /\ deadline_passed = FALSE
  /\ OtherModulesIdle
  /\ completed_tasks = <<>>
  /\ failed_tasks = <<>>
  /\ config = [k \in {} |-> 0]
  /\ tasks = <<>>
  /\ main_sandbox = Unset
  /\ build_sandboxes = <<>>
  /\ task_assignments = <<>>
  /\ si = 1
  /\ ti = 1
  /\ total_cost = 0
  /\ all_results = <<>>
  /\ merge_results = <<>>
  /\ verification = Unset
  /\ ci = 1
  /\ events = <<>>
  /\ created = <<>>
  /\ terminated = <<>>
  /\ returned = Unset

\* Lines 286-311: the call returns its task list.
PartitionReturns ==
  /\ pc = "partition_call"
  /\ ~PartitionRaises(plan)
  /\ tasks' = partition_tasks(plan)
  /\ pc' = "partition_returned"
  /\ UNCHANGED <<plan, partitionFrame>>

\* Lines 293, 304: .get on an entry that is no dict raises.
PartitionFails ==
  /\ pc = "partition_call"
  /\ PartitionRaises(plan)
  /\ pc' = "partition_raised"
  /\ UNCHANGED <<plan, tasks, partitionFrame>>

PartitionNext == PartitionReturns \/ PartitionFails

SpecPartition == PartitionInit /\ [][PartitionNext]_vars
\* Runs in which the coroutine takes its next loop step whenever it can
\* (lines 182-188: nothing but the awaited _send_webhook, which returns within
\* its timeout, stands before the next taskStarted), while a call of
\* _execute_task may take for ever to return.
SpecStalledTask == Spec /\ WF_vars(TaskStarted)

\* A step of a run in progress: every statement of lines 126-264 after the
\* first _send_webhook.
RunStep ==
  \/ Partition
  \/ CreateMain
  \/ CreateBuild
  \/ Assign
  \/ TaskStarted
  \/ ExecuteTask
  \/ ProcessMerges
  \/ Verify
  \/ Terminate
  \/ Complete

\* Runs in which every awaited call (create sandbox, execute task, process
\* merges, verify, terminate, webhook post) returns or raises, so that the
\* coroutine always takes its next step.  A caller need not start another run.
SpecCallsReturn == Spec /\ WF_vars(RunStep)

\* Time passes during a run: the time since self.start_time (line 119) reaches
\* the run's upper bound (timeout=86400, line 66).  No statement of
\* run_orchestration compares the two; the clock is read for the duration only
\* (lines 230 and 259).
DeadlinePasses ==
  /\ pc \notin {"idle", "done"}
  /\ ~deadline_passed
  /\ deadline_passed' = TRUE
  /\ UNCHANGED <<pc, runs, selfVars, argVars, localVars, events, substrateVars,
                 returned, webhookVars, otherModules>>

DeadlineNext == Next \/ DeadlinePasses

\* The runs of Spec with the clock.
SpecDeadline == Init /\ [][DeadlineNext]_vars

\* =============================================== _assign_tasks on its own
\* One call of _assign_tasks(tasks, sandboxes) for every list of up to
\* MaxAssignTasks tasks and up to MaxSandboxes sandboxes.  A task carries its
\* position in the list as the field "index", which _assign_tasks does not
\* read; ids may repeat.  tasks, build_sandboxes and task_assignments hold the
\* arguments and the returned value.
AssignTaskIds == {"phase-0", "auth"}
AssignTaskLists ==
  {[i \in 1..Len(ids) |-> [id |-> ids[i], type |-> "phase", index |-> i]] :
     ids \in SeqsUpTo(AssignTaskIds, MaxAssignTasks)}
AssignSandboxLists ==
  {[i \in 1..n |-> create_sandbox(SandboxId(b, "build-" \o ToString(i - 1)), FALSE)] :
     n \in 0..MaxSandboxes, b \in {"b1", "b2"}}

\* Everything but pc, tasks, build_sandboxes and task_assignments.
assignFrame ==
  <<runs, selfVars, argVars, main_sandbox, si, ti, total_cost, all_results,
    merge_results, verification, ci, events, substrateVars, returned, webhookVars,
    clockVars, otherModules>>

AssignInit ==
  /\ pc = "assign_call"
  /\ tasks \in AssignTaskLists
  /\ build_sandboxes \in AssignSandboxLists
  /\ task_assignments = <<>>
  /\ runs = 0
  /\ build_id = ""
  /\ webhook_url = ""
  /\ delivery = Unset
  /\ posts = <<>>
  /\ deadline_passed = FALSE
  /\ OtherModulesIdle
  /\ completed_tasks = <<>>
  /\ failed_tasks = <<>>
  /\ config = [k \in {} |-> 0]
  /\ plan = [k \in {} |-> 0]
  /\ main_sandbox = Unset
  /\ si = 1
  /\ ti = 1
  /\ total_cost = 0
  /\ all_results = <<>>
  /\ merge_results = <<>>
  /\ verification = Unset
  /\ ci = 1
  /\ events = <<>>
  /\ created = <<>>
  /\ terminated = <<>>
  /\ returned = Unset

\* Lines 313-325: the call returns the per-sandbox lists.
AssignReturns ==
  /\ pc = "assign_call"
  /\ ~AssignRaises(tasks, build_sandboxes)
  /\ task_assignments' = assign_tasks(tasks, build_sandboxes)
  /\ pc' = "assign_returned"
  /\ UNCHANGED <<tasks, build_sandboxes, assignFrame>>

\* Line 322 with an empty sandbox list.
AssignFails ==
  /\ pc = "assign_call"
  /\ AssignRaises(tasks, build_sandboxes)
  /\ pc' = "assign_raised"
  /\ UNCHANGED <<tasks, build_sandboxes, task_assignments, assignFrame>>

AssignNext == AssignReturns \/ AssignFails

SpecAssign == AssignInit /\ [][AssignNext]_vars

\* =============================================== _send_webhook on its own
\* Up to MaxEmits calls of _send_webhook(event, data), each awaited by its
\* caller, on an instance with or without a webhook_url.  The last entry of
\* events holds the call's arguments; delivery is the request handed to
\* client.post and what became of it; posts lists the requests posted so far.
WebhookEvents ==
  {"started", "tasksPartitioned", "sandboxCreated", "tasksAssigned",
   "taskStarted", "taskCompleted", "taskFailed", "budgetExceeded",
   "completed", "failed"}

\* Everything but pc, delivery and posts.
sendFrame ==
  <<runs, selfVars, argVars, localVars, events, substrateVars, returned,
    webhook_url, clockVars, otherModules>>

SendInit ==
  /\ pc = "send_call"
  /\ webhook_url \in RunWebhookUrls \cup {""}
  /\ build_id \in {"b1", "b2"}
  /\ \E ev \in WebhookEvents : events = Emit(<<>>, ev, [buildId |-> build_id])
  /\ delivery = Unset
  /\ posts = <<>>
  /\ deadline_passed = FALSE
  /\ OtherModulesIdle
  /\ runs = 1
  /\ completed_tasks = <<>>
  /\ failed_tasks = <<>>
  /\ config = [k \in {} |-> 0]
  /\ plan = [k \in {} |-> 0]
  /\ tasks = <<>>
  /\ main_sandbox = Unset
  /\ build_sandboxes = <<>>
  /\ task_assignments = <<>>
  /\ si = 1
  /\ ti = 1
  /\ total_cost = 0
  /\ all_results = <<>>
  /\ merge_results = <<>>
  /\ verification = Unset
  /\ ci = 1
  /\ created = <<>>
  /\ terminated = <<>>
  /\ returned = Unset

\* Lines 268-269: no webhook_url, nothing is sent.
SendSkip ==
  /\ pc = "send_call"
  /\ webhook_url = ""
  /\ pc' = "send_returned"
  /\ UNCHANGED <<delivery, posts, sendFrame>>

\* Lines 271-282: the request is built and posted.
SendPost ==
  /\ pc = "send_call"
  /\ webhook_url # ""
  /\ delivery' = [url |-> webhook_url,
                   json |-> [event |-> events[Len(events)].event,
                             buildId |-> build_id,
                             data |-> events[Len(events)].data],
                   timeout |-> WebhookTimeout,
                   outcome |-> "pending",
                   printed |-> FALSE]
  /\ posts' = Append(posts, [event |-> events[Len(events)].event,
                             data |-> events[Len(events)].data,
                             outcome |-> "pending"])
  /\ pc' = "send_post"
  /\ UNCHANGED sendFrame

\* Line 273: the post returns a response, whatever its status.
PostReturns ==
  /\ pc = "send_post"
  /\ \E status \in DeliveryStatuses :
       /\ delivery' = [delivery EXCEPT !.outcome = ToString(status)]
       /\ posts' = [posts EXCEPT ![Len(posts)].outcome = ToString(status)]
  /\ pc' = "send_returned"
  /\ UNCHANGED sendFrame

\* Line 273: the post fails or times out.
PostRaises ==
  /\ pc = "send_post"
  /\ \E exc \in DeliveryErrors :
       /\ delivery' = [delivery EXCEPT !.outcome = exc.name]
       /\ posts' = [posts EXCEPT ![Len(posts)].outcome = exc.name]
  /\ pc' = "send_except"
  /\ UNCHANGED sendFrame

\* Lines 283-284.
SendExcept ==
  /\ pc = "send_except"
  /\ \E exc \in DeliveryErrors :
       /\ exc.name = delivery.outcome
       /\ pc' = send_webhook_except(exc)
       /\ delivery' = [delivery EXCEPT !.printed = (pc' = "send_returned")]
  /\ UNCHANGED <<posts, sendFrame>>

\* A variant of the call sites that does not await the call.
AwaitOver_FireAndForget ==
  pc \in {"send_call", "send_post", "send_except", "send_returned"}

\* "await self._send_webhook(...)": the caller is resumed when the call has
\* returned.
AwaitOver == pc = "send_returned"

\* The await of _send_webhook is over (e.g. line 184): the caller goes on with
\* its next statements (after taskStarted, the call of _execute_task at line
\* 191) up to its next call of _send_webhook.  After completed and failed the
\* caller returns (lines 251 and 264).
CallerResumes ==
  /\ AwaitOver
  /\ Len(events) < MaxEmits
  /\ events[Len(events)].event \notin {"completed", "failed"}
  /\ \E ev \in WebhookEvents : events' = Emit(events, ev, [buildId |-> build_id])
  /\ delivery' = Unset
  /\ pc' = "send_call"
  /\ UNCHANGED <<posts, runs, selfVars, argVars, localVars, substrateVars, returned,
                 webhook_url, clockVars, otherModules>>

SendNext ==
  SendSkip \/ SendPost \/ PostReturns \/ PostRaises \/ SendExcept \/ CallerResumes

SpecWebhook == SendInit /\ [][SendNext]_vars

\* ======================================================= sandbox bridge
\* modal-sandbox-bridge.py.  A request is the dict parsed from stdin: each of
\* its keys may be missing.  JsonList stands for a JSON array given where a
\* string is expected (a Python list: truthy, not hashable).
MaxRequests == 3
DefaultPort == 5173
JsonList == "[list]"
EmptyDict == [k \in {} |-> 0]
BridgeActions == {"create", "exec", "get_tunnel", "terminate"}
ActionValues == BridgeActions \cup {"restart", "", JsonList}
SandboxIdValues == {"s1", "s2", ""}
ConfigValues == {EmptyDict, NonDict}
CommandValues == {<<>>, <<"ls">>}
RequestKeys == {"action", "sandboxId", "config", "command"}
BridgeRequests ==
  {[k \in present |-> vals[k]] :
     present \in SUBSET RequestKeys,
     vals \in [action : ActionValues, sandboxId : SandboxIdValues,
               config : ConfigValues, command : CommandValues]}

\* "not request.get(key)" for a string and for a list value.
NoString(req, key) == Get(req, key, "") = ""
NoList(req, key) == Get(req, key, <<>>) = <<>>

\* What a function of the bridge does: it returns a response or it raises, and
\* it leaves the registry in some state.
Reply(resp, reg) == [response |-> resp, registry |-> reg]
Raise(exc, reg) == [raised |-> exc, registry |-> reg]
Raised(out) == "raised" \in DOMAIN out
Failure(msg) == [success |-> FALSE, error |-> msg]
NotFound(sandbox_id) == Failure("Sandbox " \o sandbox_id \o " not found")

\* ACTIVE_SANDBOXES[sandbox_id] = sandbox_data, del ACTIVE_SANDBOXES[sandbox_id]
Store(reg, sandbox_id, data) ==
  [k \in DOMAIN reg \cup {sandbox_id} |-> IF k = sandbox_id THEN data ELSE reg[k]]
Delete(reg, sandbox_id) == [k \in DOMAIN reg \ {sandbox_id} |-> reg[k]]

\* create_sandbox (lines 136-194).  build_image_from_config (line 145) and the
\* config.get calls (lines 148-155) are outside the try: a config that is not
\* a dict raises.
bridge_create_sandbox(req, reg) ==
  IF NoString(req, "sandboxId") THEN Raise("sandboxId is required", reg)
  ELSE IF ~IsDict(Get(req, "config", EmptyDict)) THEN Raise("AttributeError", reg)
  ELSE LET sandbox_id == req.sandboxId
           sandbox_data == [sandbox_id |-> sandbox_id,
                            app_id |-> "kriptik-sandbox-" \o sandbox_id,
                            status |-> "running"]
       IN  Reply([success |-> TRUE,
                  data |-> [app_id |-> sandbox_data.app_id, status |-> "running",
                            sandbox_id |-> sandbox_id]],
                 Store(reg, sandbox_id, sandbox_data))

\* exec_in_sandbox (lines 197-269).  modal_ok: the remote call of lines 254-255
\* returned (TRUE) or raised (FALSE).
exec_in_sandbox(req, reg, modal_ok) ==
  IF NoString(req, "sandboxId") THEN Raise("sandboxId is required", reg)
  ELSE IF NoList(req, "command") THEN Raise("command is required", reg)
  ELSE IF req.sandboxId \notin DOMAIN reg THEN Reply(NotFound(req.sandboxId), reg)
  ELSE IF modal_ok
       THEN Reply([success |-> TRUE, data |-> [exit_code |-> 0]], reg)
       ELSE Reply(Failure("Command execution failed"), reg)

\* get_sandbox_tunnel (lines 272-306)
get_sandbox_tunnel(req, reg) ==
  IF NoString(req, "sandboxId") THEN Raise("sandboxId is required", reg)
  ELSE IF req.sandboxId \notin DOMAIN reg THEN Reply(NotFound(req.sandboxId), reg)
  ELSE Reply([success |-> TRUE,
              data |-> [url |-> "https://" \o reg[req.sandboxId].app_id
                                  \o "--port-" \o ToString(DefaultPort)
                                  \o ".modal.run",
                        port |-> DefaultPort,
                        sandbox_id |-> req.sandboxId]],
             reg)

\* terminate_sandbox without the del of line 324.
terminate_sandbox_KeepsEntry(req, reg) ==
  IF NoString(req, "sandboxId") THEN Raise("sandboxId is required", reg)
  ELSE IF req.sandboxId \notin DOMAIN reg THEN Reply(NotFound(req.sandboxId), reg)
  ELSE Reply([success |-> TRUE,
              data |-> [sandbox_id |-> req.sandboxId, status |-> "terminated"]],
             reg)

\* terminate_sandbox (lines 309-342)
terminate_sandbox(req, reg) ==
  IF NoString(req, "sandboxId") THEN Raise("sandboxId is required", reg)
  ELSE IF req.sandboxId \notin DOMAIN reg THEN Reply(NotFound(req.sandboxId), reg)
  ELSE Reply([success |-> TRUE,
              data |-> [sandbox_id |-> req.sandboxId, status |-> "terminated"]],
             Delete(reg, req.sandboxId))

\* handlers[action](request), lines 359-364 and 374
Handler(action, req, reg, modal_ok) ==
  CASE action = "create" -> bridge_create_sandbox(req, reg)
    [] action = "exec" -> exec_in_sandbox(req, reg, modal_ok)
    [] action = "get_tunnel" -> get_sandbox_tunnel(req, reg)
    [] action = "terminate" -> terminate_sandbox(req, reg)

\* handle_request (lines 349-379).  handlers.get(action) at line 366 hashes
\* the action and is outside the try of lines 373-379.
handle_request(req, reg, modal_ok) ==
  LET action == Get(req, "action", "")
  IN  IF action = "" THEN Reply(Failure("action field is required"), reg)
      ELSE IF action = JsonList THEN Raise("TypeError: unhashable type: 'list'", reg)
      ELSE IF action \notin BridgeActions
           THEN Reply(Failure("Unknown action: " \o action), reg)
      ELSE LET out == Handler(action, req, reg, modal_ok)
           IN  IF Raised(out)
               THEN Reply(Failure("Handler error: " \o out.raised), out.registry)
               ELSE out

\* The latest successful lifecycle request (create, terminate) of each id.
Lifecycle_After(life, req, out) ==
  IF /\ ~Raised(out)
     /\ out.response.success
     /\ Get(req, "action", "") \in {"create", "terminate"}
  THEN Store(life, req.sandboxId, req.action)
  ELSE life

\* The orchestrator is not part of the bridge process.
OrchestratorIdle ==
  /\ runs = 0
  /\ build_id = ""
  /\ webhook_url = ""
  /\ delivery = Unset
  /\ posts = <<>>
  /\ deadline_passed = FALSE
  /\ completed_tasks = <<>>
  /\ failed_tasks = <<>>
  /\ config = EmptyDict
  /\ plan = EmptyDict
  /\ tasks = <<>>
  /\ main_sandbox = Unset
  /\ build_sandboxes = <<>>
  /\ task_assignments = <<>>
  /\ si = 1
  /\ ti = 1
  /\ total_cost = 0
  /\ all_results = <<>>
  /\ merge_results = <<>>
  /\ verification = Unset
  /\ ci = 1
  /\ events = <<>>
  /\ created = <<>>
  /\ terminated = <<>>
  /\ returned = Unset

bridgeFrame == <<orchestratorVars, batchVars>>

\* Line 104: the registry of a process starts empty.
BridgeInit ==
  /\ pc = "bridge_wait"
  /\ OrchestratorIdle
  /\ OtherModulesIdle

\* The process is given its next request.
BridgeReceives ==
  /\ pc = "bridge_wait"
  /\ handled < MaxRequests
  /\ request' \in BridgeRequests
  /\ response' = Unset
  /\ pc' = "bridge_handle"
  /\ UNCHANGED <<ACTIVE_SANDBOXES, lifecycle, handled, bridgeFrame>>

\* response = handle_request(request), line 401
HandleRequest ==
  /\ pc = "bridge_handle"
  /\ \E modal_ok \in BOOLEAN :
       LET out == handle_request(request, ACTIVE_SANDBOXES, modal_ok)
       IN  /\ ACTIVE_SANDBOXES' = out.registry
           /\ lifecycle' = Lifecycle_After(lifecycle, request, out)
           /\ IF Raised(out)
              THEN /\ response' = Unset
                   /\ pc' = "bridge_raised"
              ELSE /\ response' = out.response
                   /\ pc' = "bridge_wait"
  /\ handled' = handled + 1
  /\ UNCHANGED <<request, bridgeFrame>>

BridgeNext == BridgeReceives \/ HandleRequest

SpecBridge == BridgeInit /\ [][BridgeNext]_vars

\* ---------------------------------------------- one process per request
\* main (lines 386-417): a process reads one request from stdin, answers it on
\* stdout and exits.  Every process loads the module, so its registry starts
\* empty (line 104).  lifecycle is kept across the processes.
StdinRejected == {"No input data received", "Invalid JSON input"}

\* Lines 390-401: stdin holds a JSON document.
MainInvoked ==
  /\ pc = "bridge_wait"
  /\ handled < MaxRequests
  /\ ACTIVE_SANDBOXES' = NoSandboxes
  /\ request' \in BridgeRequests
  /\ response' = Unset
  /\ pc' = "bridge_handle"
  /\ UNCHANGED <<lifecycle, handled, bridgeFrame>>

\* Lines 392-396 and 402-406: stdin is empty or is not JSON.
MainRejectsInput ==
  /\ pc = "bridge_wait"
  /\ handled < MaxRequests
  /\ ACTIVE_SANDBOXES' = NoSandboxes
  /\ request' = Unset
  /\ \E msg \in StdinRejected : response' = Failure(msg)
  /\ handled' = handled + 1
  /\ UNCHANGED <<pc, lifecycle, bridgeFrame>>

\* Lines 411-418: handle_request raised.
MainFatal ==
  /\ pc = "bridge_raised"
  /\ response' = Failure("Fatal error")
  /\ pc' = "bridge_wait"
  /\ UNCHANGED <<ACTIVE_SANDBOXES, request, lifecycle, handled, bridgeFrame>>

BridgeMainNext == MainInvoked \/ MainRejectsInput \/ HandleRequest \/ MainFatal

SpecBridgeMain == BridgeInit /\ [][BridgeMainNext]_vars

\* ======================================================= batch of tasks
\* modal-snapshot-config.py.  A task is a dict with a task_id, an action and,
\* optionally, a critical flag.
MaxBatch == 3
BatchTaskIds == {"t1", "t2"}
BatchTaskActions == {"warm_up", "exec"}
BatchTasks ==
  {[k \in present |-> vals[k]] :
     present \in {{"task_id", "action"}, {"task_id", "action", "critical"}},
     vals \in [task_id : BatchTaskIds, action : BatchTaskActions, critical : BOOLEAN]}

\* execute_build_task (lines 124-311) for the actions warm_up (lines 159-161)
\* and exec (lines 196-218): it returns the success result of lines 284-290 or,
\* when the command timed out, the failure result of lines 292-300.
execute_build_task(task_data, timed_out) ==
  LET task_id == Get(task_data, "task_id", "unknown")
      action == Get(task_data, "action", "unknown")
  IN  IF action = "exec" /\ timed_out
      THEN [success |-> FALSE, task_id |-> task_id, action |-> action,
            error |-> "Command timed out"]
      ELSE [success |-> TRUE, task_id |-> task_id, action |-> action]

\* A variant of line 373 that stops at any failing task.
StopsBatch_AnyFailure(result, task) == ~result.success

\* Line 373.
StopsBatch(result, task) == ~result.success /\ Get(task, "critical", FALSE)

batchFrame == <<orchestratorVars, bridgeVars>>

\* execute_batch_tasks is called with a list of tasks (lines 359-366).
BatchInit ==
  /\ pc = "batch_loop"
  /\ batch_tasks \in SeqsUpTo(BatchTasks, MaxBatch)
  /\ batch_results = <<>>
  /\ bi = 1
  /\ ACTIVE_SANDBOXES = NoSandboxes
  /\ request = Unset
  /\ response = Unset
  /\ lifecycle = NoSandboxes
  /\ handled = 0
  /\ OrchestratorIdle

\* Lines 368-374: one iteration of the loop; "break" is followed by the return
\* of line 376.
BatchExecutes ==
  /\ pc = "batch_loop"
  /\ bi <= Len(batch_tasks)
  /\ \E timed_out \in BOOLEAN :
       LET task == batch_tasks[bi]
           result == execute_build_task(task, timed_out)
       IN  /\ batch_results' = Append(batch_results, result)
           /\ IF StopsBatch(result, task)
              THEN pc' = "batch_returned" /\ bi' = bi
              ELSE pc' = pc /\ bi' = bi + 1
  /\ UNCHANGED <<batch_tasks, batchFrame>>

\* Line 376 after the last task.
BatchReturns ==
  /\ pc = "batch_loop"
  /\ bi > Len(batch_tasks)
  /\ pc' = "batch_returned"
  /\ UNCHANGED <<batchVars, batchFrame>>

BatchNext == BatchExecutes \/ BatchReturns

SpecBatch == BatchInit /\ [][BatchNext]_vars

\* ================================================================== claims
\* Helpers over the event log and the result list.
Count(log, event) == Cardinality({i \in 1..Len(log) : log[i].event = event})
LastEvent == events[Len(events)]
NumResults(results, ok) == Cardinality({i \in 1..Len(results) : results[i].success = ok})
RECURSIVE SumCosts(_)
SumCosts(results) ==
  IF results = <<>> THEN 0
  ELSE Get(Head(results), "cost", 0) + SumCosts(Tail(results))
Range(seq) == {seq[i] : i \in 1..Len(seq)}
BuildSandboxIds == {build_sandboxes[i].id : i \in 1..Len(build_sandboxes)}
EndedCompleted == pc = "done" /\ LastEvent.event = "completed"
EndedFailed == pc = "done" /\ LastEvent.event = "failed"

\* C1: once the cumulative recorded cost has reached budgetLimitUsd, no further
\* task is started: whenever a task is in flight (taskStarted sent, execute_task
\* called), the cost recorded before it started was below the limit.
C1_NoTaskStartsAfterBudget ==
  pc = "exec" => ~BudgetReached(total_cost, budget_limit_usd)

\* C2: budgetExceeded is emitted at most once in a run, and exactly once once
\* the cumulative cost has reached the ceiling.
C2_BudgetExceededOnce ==
  /\ Count(events, "budgetExceeded") <= 1
  /\ (pc \in {"loop", "verify", "cleanup"} /\ BudgetReached(total_cost, budget_limit_usd))
       => Count(events, "budgetExceeded") = 1

\* C3: when run_orchestration has returned (completed or failed), terminate
\* has been called for every build sandbox that was created.
C3_BuildSandboxesTerminated ==
  pc = "done" => BuildSandboxIds \subseteq Range(terminated)

\* C4: an execute_task call that raises is turned into a failed task result:
\* every step out of an in-flight task records the task as completed or failed,
\* sends its terminal task event and leaves the coroutine in the loop.
C4_ExecuteTaskErrorIsTaskFailure ==
  [][pc = "exec" =>
       /\ pc' = "loop"
       /\ Len(completed_tasks') + Len(failed_tasks')
            = Len(completed_tasks) + Len(failed_tasks) + 1
       /\ Count(events', "taskCompleted") + Count(events', "taskFailed")
            = Count(events, "taskCompleted") + Count(events, "taskFailed") + 1]_vars

\* C5: the success flag of the completed result is the verifier's satisfied
\* flag, whatever the task outcomes; and a run in which the verifier returned
\* (satisfied or not) and the cleanup loop ran to its end ends with the
\* completed event, never the failed one.
C5_SuccessIsVerifierVerdict ==
  /\ EndedCompleted =>
       /\ verification # Unset
       /\ returned.success = verification.satisfied
       /\ LastEvent.data.success = verification.satisfied
  /\ (pc = "done" /\ verification # Unset /\ ci > Len(build_sandboxes))
       => EndedCompleted

\* C5 witness: every task succeeded, the verifier answered satisfied = false,
\* and the run ended with the completed event and success = false.
C5_Witness ==
  /\ EndedCompleted
  /\ Len(tasks) >= 2
  /\ NumResults(all_results, TRUE) = Len(tasks)
  /\ returned.tasksFailed = 0
  /\ ~verification.satisfied
  /\ returned.success = FALSE

\* C6: an exception at any step ends the run with the failed event sent exactly
\* once and a result with success = false whose tasksCompleted and tasksFailed
\* are the numbers of tasks of this run that completed and failed before it.
C6_FailedResultCountsThisRun ==
  EndedFailed =>
    /\ Count(events, "failed") = 1
    /\ returned.success = FALSE
    /\ returned.tasksCompleted = NumResults(all_results, TRUE)
    /\ returned.tasksFailed = NumResults(all_results, FALSE)

\* C7: a run that has returned has sent exactly one terminal event (completed
\* or failed, not both), it is the last event of the run, and its payload is the
\* returned value; a run that has not returned has sent none.
C7_OneTerminalEvent ==
  LET n == Count(events, "completed") + Count(events, "failed")
  IN  /\ pc = "done" =>
           /\ n = 1
           /\ LastEvent.event \in {"completed", "failed"}
           /\ LastEvent.data = returned
      /\ pc # "done" => n = 0 /\ returned = Unset

\* C7 witness: a run that executed a task and then returned its failed result.
C7_Witness ==
  /\ EndedFailed
  /\ Count(events, "taskCompleted") >= 1
  /\ LastEvent.data = returned

\* C8: the completed result reports the tasks never started after the budget
\* stop as unattempted, and completed + failed + unattempted is the number of
\* partitioned tasks.
C8_UnattemptedReported ==
  EndedCompleted =>
    /\ "unattempted" \in DOMAIN returned
    /\ returned.tasksCompleted + returned.tasksFailed + returned.unattempted = Len(tasks)

\* C9: on the first run of a fresh instance that ends with the completed event,
\* tasksCompleted and tasksFailed are the numbers of executed tasks whose result
\* had success = true and success = false, and costUsd is the sum of the costs
\* of all executed tasks.
C9_CompletedResultTallies ==
  (EndedCompleted /\ runs = 1) =>
    /\ returned.tasksCompleted = NumResults(all_results, TRUE)
    /\ returned.tasksFailed = NumResults(all_results, FALSE)
    /\ returned.costUsd = SumCosts(all_results)

\* C9 witness: two tasks of cost 1 both succeed under the default budget of
\* 100; the fresh run reports tasksCompleted = 2, tasksFailed = 0, costUsd = 2.
C9_Witness ==
  /\ EndedCompleted /\ runs = 1
  /\ Len(tasks) = 2
  /\ budget_limit_usd = DefaultBudget
  /\ returned.tasksCompleted = 2
  /\ returned.tasksFailed = 0
  /\ returned.costUsd = 2

\* C10: if the creation of the main sandbox raises, the run returns success =
\* false with an error, no build sandbox was created, no taskStarted was sent
\* and the failed event was sent exactly once.
MainCreationRaised ==
  pc = "done" /\ main_sandbox = Unset /\ Count(events, "tasksPartitioned") = 1

C10_MainSandboxFailure ==
  MainCreationRaised =>
    /\ returned.success = FALSE
    /\ "error" \in DOMAIN returned
    /\ build_sandboxes = <<>>
    /\ created = <<>>
    /\ Count(events, "taskStarted") = 0
    /\ Count(events, "failed") = 1
    /\ Count(events, "completed") = 0

\* C10 witness: a plan with tasks whose main sandbox could not be created.
C10_Witness ==
  /\ MainCreationRaised
  /\ Len(tasks) >= 1
  /\ returned.error = "create main sandbox failed"

\* The id line 293 / 304 gives the entry at 0-based position i.
ExpectedId(entry, prefix, i) ==
  IF "id" \in DOMAIN entry THEN entry.id ELSE prefix \o ToString(i)
PlanPhases == Get(plan, "phases", <<>>)
PlanFeatures == Get(plan, "features", <<>>)

\* C11: for a plan with P >= 1 phases _partition_tasks returns exactly P tasks
\* of type phase in plan order, the i-th with the i-th phase's explicit id or,
\* without one, the fallback phase-<i> (i counted from 0).
C11_PhasesBecomeTasks ==
  (pc = "partition_returned" /\ Len(PlanPhases) >= 1) =>
    /\ Len(tasks) = Len(PlanPhases)
    /\ \A i \in 1..Len(PlanPhases) :
         /\ tasks[i].type = "phase"
         /\ tasks[i].id = ExpectedId(PlanPhases[i], "phase-", i - 1)

\* C11 witness: three phases, the second with an explicit id, the third
\* without: the third task's id is the fallback phase-2.
C11_Witness ==
  /\ pc = "partition_returned"
  /\ Len(PlanPhases) = 3
  /\ "id" \in DOMAIN PlanPhases[2]
  /\ "id" \notin DOMAIN PlanPhases[3]
  /\ tasks[2].id = "auth"
  /\ tasks[3].id = "phase-2"

\* C12: with zero phases and F features _partition_tasks returns exactly F
\* tasks of type feature in plan order, each with its explicit id or the
\* fallback feature-<i>; with at least one phase it returns phase tasks only,
\* whatever the features.
C12_FeaturesOnlyWithoutPhases ==
  pc = "partition_returned" =>
    /\ Len(PlanPhases) = 0 =>
         /\ Len(tasks) = Len(PlanFeatures)
         /\ \A i \in 1..Len(PlanFeatures) :
              /\ tasks[i].type = "feature"
              /\ tasks[i].id = ExpectedId(PlanFeatures[i], "feature-", i - 1)
    /\ Len(PlanPhases) >= 1 =>
         /\ Len(tasks) = Len(PlanPhases)
         /\ \A i \in 1..Len(tasks) : tasks[i].type = "phase"

\* C12 witness: no phases and two features, the first with an explicit id, the
\* second with the fallback feature-1.
C12_Witness ==
  /\ pc = "partition_returned"
  /\ Len(PlanPhases) = 0
  /\ Len(tasks) = 2
  /\ tasks[1].id = "login" /\ tasks[1].type = "feature"
  /\ tasks[2].id = "feature-1"

\* C13: a run whose plan has no phases and no features partitions to zero
\* tasks, creates no build sandbox, sends no taskStarted and, when no
\* collaborator call raises, ends with the completed event reporting
\* costUsd = 0, tasksCompleted = 0 and tasksFailed = 0.
EmptyPlanRun ==
  pc = "done" /\ Len(PlanPhases) = 0 /\ Len(PlanFeatures) = 0

C13_EmptyPlanCompletesWithZeros ==
  EmptyPlanRun =>
    /\ tasks = <<>>
    /\ build_sandboxes = <<>>
    /\ Count(events, "taskStarted") = 0
    /\ (main_sandbox # Unset /\ verification # Unset) => EndedCompleted
    /\ EndedCompleted =>
         /\ returned.costUsd = 0
         /\ returned.tasksCompleted = 0
         /\ returned.tasksFailed = 0

\* The same statement for the first run of a new instance only.
C13_OnFreshInstance == runs = 1 => C13_EmptyPlanCompletesWithZeros

\* C14: on T tasks and N >= 1 sandboxes _assign_tasks returns exactly N lists;
\* task i (from 0) is in list i mod N, at place i div N, so every task is in
\* exactly one list and each list keeps the tasks' relative order; the lists
\* are stated from the task order and N alone.
C14_RoundRobin ==
  (pc = "assign_returned" /\ Len(build_sandboxes) >= 1) =>
    LET N == Len(build_sandboxes)
        T == Len(tasks)
    IN  /\ Len(task_assignments) = N
        /\ \A j \in 1..N :
             /\ Len(task_assignments[j])
                  = Cardinality({i \in 0..(T - 1) : i % N = j - 1})
             /\ \A k \in 1..Len(task_assignments[j]) :
                  task_assignments[j][k] = tasks[(k - 1) * N + j]
        /\ \A i \in 1..T :
             Cardinality({jk \in (1..N) \X (1..T) :
                            /\ jk[2] <= Len(task_assignments[jk[1]])
                            /\ task_assignments[jk[1]][jk[2]] = tasks[i]}) = 1

\* C14 witness: four tasks on three sandboxes; the first list holds the first
\* and the fourth task, in that order.
C14_Witness ==
  /\ pc = "assign_returned"
  /\ Len(tasks) = 4
  /\ Len(build_sandboxes) = 3
  /\ task_assignments[1] = <<tasks[1], tasks[4]>>
  /\ task_assignments[2] = <<tasks[2]>>

\* Merging lists by increasing original index: all elements, sorted on "index".
RECURSIVE Flatten(_)
Flatten(lists) == IF lists = <<>> THEN <<>> ELSE Head(lists) \o Flatten(Tail(lists))
RECURSIVE InsertByIndex(_, _)
InsertByIndex(sorted, t) ==
  IF sorted = <<>> THEN <<t>>
  ELSE IF t.index < Head(sorted).index THEN <<t>> \o sorted
  ELSE <<Head(sorted)>> \o InsertByIndex(Tail(sorted), t)
RECURSIVE SortByIndex(_)
SortByIndex(seq) ==
  IF seq = <<>> THEN <<>>
  ELSE InsertByIndex(SortByIndex(Tail(seq)), Head(seq))

\* C15: for T >= 0 tasks and N >= 1 sandboxes, merging the lists returned by
\* _assign_tasks by increasing original task index gives back exactly the
\* original task sequence.
C15_AssignRoundTrip ==
  (pc = "assign_returned" /\ Len(build_sandboxes) >= 1) =>
    SortByIndex(Flatten(task_assignments)) = tasks

\* C15 witness: four tasks spread over two sandboxes, two in each, merged back.
C15_Witness ==
  /\ pc = "assign_returned"
  /\ Len(tasks) = 4
  /\ Len(build_sandboxes) = 2
  /\ Len(task_assignments[1]) = 2 /\ Len(task_assignments[2]) = 2
  /\ SortByIndex(Flatten(task_assignments)) = tasks

\* C16: for maxParallelSandboxes >= 0 and a plan of at least one task, the
\* spawn loop creates min(maxParallelSandboxes, taskCount) build sandboxes and
\* at least one, so that task assignment has a sandbox and does not fail.
C16_AtLeastOneBuildSandbox ==
  (Len(tasks) >= 1 /\ max_parallel_sandboxes >= 0) =>
    /\ pc \in {"loop", "exec", "verify", "cleanup"} =>
         /\ Len(build_sandboxes) = Min(max_parallel_sandboxes, Len(tasks))
         /\ Len(build_sandboxes) >= 1
    /\ pc = "done" => Get(returned, "error", "") # "ZeroDivisionError"

\* The build sandboxes of this run that were created and are not terminated.
LiveBuildSandboxes ==
  (Range(created) \ {SandboxId(build_id, "main")}) \ Range(terminated)

\* C17: in every state of a run, the build sandboxes of the run that have been
\* created and not yet terminated number at most maxParallelSandboxes.
C17_LiveBuildSandboxesBounded ==
  pc # "idle" => Cardinality(LiveBuildSandboxes) <= max_parallel_sandboxes

\* C17 witness: three tasks under maxParallelSandboxes = 2; a task runs while
\* exactly two build sandboxes are live.
C17_Witness ==
  /\ pc = "exec"
  /\ Len(tasks) = 3
  /\ max_parallel_sandboxes = 2
  /\ Cardinality(LiveBuildSandboxes) = 2

\* The positions of the successful results, and the k-th of them.
SuccessPositions == {i \in 1..Len(all_results) : all_results[i].success}
NthSuccess(k) ==
  CHOOSE i \in SuccessPositions :
    Cardinality({j \in SuccessPositions : j < i}) = k - 1

\* C18: once process_merges has returned, merge_results holds one record
\* {taskId, merged: true} per result with success = true, in result order, and
\* none for a result with success = false.
C18_OnlySuccessesMerged ==
  (pc \in {"verify", "cleanup"} \/ EndedCompleted) =>
    /\ Len(merge_results) = Cardinality(SuccessPositions)
    /\ \A k \in 1..Len(merge_results) :
         merge_results[k] = [taskId |-> all_results[NthSuccess(k)].taskId,
                             merged |-> TRUE]

\* C18 witness: a failed result between two successful ones; two records.
C18_Witness ==
  /\ pc = "verify"
  /\ Len(all_results) = 3
  /\ all_results[1].success /\ ~all_results[2].success /\ all_results[3].success
  /\ Len(merge_results) = 2
  /\ merge_results[2].taskId = all_results[3].taskId

\* C19: a delivery that fails or times out changes nothing of the build:
\* every step of _send_webhook leaves the instance's lists, the run's locals,
\* the sandboxes and the result as they are, whatever the delivery's outcome,
\* and the call never ends by raising to its caller.
C19_WebhookFailuresSwallowed ==
  [][/\ pc' # "send_raised"
     /\ UNCHANGED <<selfVars, localVars, substrateVars, returned>>]_vars

\* C19 witness: a post to a configured webhook timed out, the error was
\* printed and the call has returned.
C19_Witness ==
  /\ pc = "send_returned"
  /\ webhook_url # ""
  /\ delivery # Unset
  /\ delivery.outcome = "TimeoutException"
  /\ delivery.printed

\* The events of a completed run up to tasksAssigned, and the rest but the last.
PreambleLen == 4 + Len(build_sandboxes)
TaskEventNames == {"taskStarted", "taskCompleted", "taskFailed"}

\* The order of a completed run's events, with any number of budgetExceeded.
EventOrder ==
  /\ Len(events) >= PreambleLen + 1
  /\ events[1].event = "started"
  /\ events[2].event = "tasksPartitioned"
  /\ events[3].event = "sandboxCreated" /\ events[3].data.type = "main"
  /\ \A i \in 1..Len(build_sandboxes) :
       /\ events[3 + i].event = "sandboxCreated"
       /\ events[3 + i].data.type = "build"
       /\ events[3 + i].data.sandboxId = build_sandboxes[i].id
  /\ events[PreambleLen].event = "tasksAssigned"
  /\ \A i \in (PreambleLen + 1)..(Len(events) - 1) :
       events[i].event \in TaskEventNames \cup {"budgetExceeded"}
  /\ events[Len(events)].event = "completed"

\* C20: a run that ends with completed has sent started, tasksPartitioned,
\* sandboxCreated(main), one sandboxCreated(build) per build sandbox,
\* tasksAssigned, then only task events and at most one budgetExceeded, then
\* completed.
C20_CompletedRunEventOrder ==
  EndedCompleted => (EventOrder /\ Count(events, "budgetExceeded") <= 1)

\* The order alone, whatever the number of budgetExceeded events.
C20_OrderAlone == EndedCompleted => EventOrder

\* Event i of the log is a terminal task event of the task that event j started.
IsTerminalOf(i, j) ==
  /\ events[i].event \in {"taskCompleted", "taskFailed"}
  /\ events[i].data.sandboxId = events[j].data.sandboxId
  /\ events[i].data.taskId = events[j].data.taskId

\* Every taskStarted but that of the task in flight is followed at once by the
\* terminal event of its task, and every terminal event follows its taskStarted.
StartedTasksHaveOneTerminal ==
  /\ \A i \in 1..Len(events) :
       events[i].event = "taskStarted" =>
         \/ i = Len(events) /\ pc = "exec"
         \/ i < Len(events) /\ IsTerminalOf(i + 1, i)
  /\ \A i \in 1..Len(events) :
       events[i].event \in {"taskCompleted", "taskFailed"} =>
         i > 1 /\ events[i - 1].event = "taskStarted" /\ IsTerminalOf(i, i - 1)

\* C21: taskStarted is sent at most once per task, and every task whose
\* taskStarted was sent gets exactly one terminal task event after it
\* (taskCompleted or taskFailed), also when its execution raises.
C21_OneTerminalEventPerStartedTask ==
  /\ Count(events, "taskStarted") <= Len(tasks)
  /\ StartedTasksHaveOneTerminal

\* The same statement apart from runs ended by an execute_task call that raised.
C21_WhenExecuteReturns ==
  (pc = "done" /\ Get(returned, "error", "") = "execute task failed")
    \/ C21_OneTerminalEventPerStartedTask

\* The task events of build sandbox j, in the order they were sent.
IsTaskEventOf(ev, j) ==
  ev.event \in TaskEventNames /\ ev.data.sandboxId = build_sandboxes[j].id
RECURSIVE TaskEventsOf(_, _)
TaskEventsOf(log, j) ==
  IF log = <<>> THEN <<>>
  ELSE IF IsTaskEventOf(Head(log), j)
       THEN <<Head(log)>> \o TaskEventsOf(Tail(log), j)
       ELSE TaskEventsOf(Tail(log), j)

\* C22: within one build sandbox tasks run one after the other in assignment
\* order: the sandbox's task events alternate taskStarted and terminal event,
\* the k-th taskStarted is that of the k-th assigned task, and its terminal
\* event comes before the next taskStarted, so no two of its tasks are in flight.
C22_SequentialWithinSandbox ==
  \A j \in 1..Len(build_sandboxes) :
    LET se == TaskEventsOf(events, j)
    IN  /\ se # <<>> => j <= Len(task_assignments)
        /\ \A k \in 1..Len(se) :
             IF k % 2 = 1
             THEN /\ se[k].event = "taskStarted"
                  /\ (k + 1) \div 2 <= Len(task_assignments[j])
                  /\ se[k].data.taskId = task_assignments[j][(k + 1) \div 2].id
             ELSE /\ se[k].event \in {"taskCompleted", "taskFailed"}
                  /\ se[k].data.taskId = se[k - 1].data.taskId

\* C22 witness: the first build sandbox holds two tasks with different ids
\* and both have run, the first before the second.
C22_Witness ==
  /\ Len(build_sandboxes) >= 1
  /\ Len(task_assignments) >= 1
  /\ Len(task_assignments[1]) = 2
  /\ task_assignments[1][1].id # task_assignments[1][2].id
  /\ Len(TaskEventsOf(events, 1)) = 4

\* The taskStarted events whose task has no terminal event yet.
UnfinishedStarts ==
  {i \in 1..Len(events) :
     /\ events[i].event = "taskStarted"
     /\ ~(i < Len(events) /\ IsTerminalOf(i + 1, i))}

\* The sandboxes of the run that hold tasks, and those with a started task.
SandboxesHoldingTasks ==
  {j \in 1..Len(task_assignments) : Len(task_assignments[j]) > 0}
SandboxStarted(j) ==
  \E i \in 1..Len(events) :
    events[i].event = "taskStarted" /\ events[i].data.sandboxId = build_sandboxes[j].id

\* C23: across build sandboxes execution is concurrent: once two or more
\* sandboxes hold tasks, a task of the second of them starts without waiting
\* for the tasks of the first to finish, so it starts (or the run ends) even
\* when a task of the first sandbox never returns.
C23_SandboxesRunConcurrently ==
  (pc \in {"loop", "exec"} /\ Cardinality(SandboxesHoldingTasks) >= 2)
    ~> (pc = "done" \/ \A j \in SandboxesHoldingTasks : SandboxStarted(j))

\* What the loop does instead: at most one started task is unfinished.
C23_AtMostOneTaskInFlight == Cardinality(UnfinishedStarts) <= 1

\* C24: elapsed time is checked at every task boundary: once the deadline has
\* passed, the loop starts no further task; its next step is the merge, and
\* verification, teardown and the completed event follow as for an exceeded
\* budget.
C24_NoTaskStartsAfterDeadline ==
  [][(deadline_passed /\ pc = "loop") => pc' = "verify"]_vars

\* C25: emitting a progress event does not block the orchestrator: while the
\* delivery of the event is pending at the endpoint, the caller can take its
\* next step (after taskStarted, begin the task's execution).
C25_EmitDoesNotBlock ==
  (/\ pc = "send_post"
   /\ Len(events) < MaxEmits
   /\ LastEvent.event \notin {"completed", "failed"}) => ENABLED CallerResumes

\* What the await does instead: the caller's next step is possible only once
\* the delivery has ended, by a response or by an error that was handled.
C25_CallerWaitsForDelivery ==
  (ENABLED CallerResumes /\ webhook_url # "") =>
    (delivery # Unset /\ delivery.outcome # "pending")

\* C26: the events of a build are handed to the webhook in emission order:
\* the k-th request posted is the k-th event emitted, so no delivery attempt
\* begins before those of the events emitted earlier, whatever became of them.
C26_DeliveriesInEmissionOrder ==
  /\ Len(posts) <= Len(events)
  /\ \A k \in 1..Len(posts) :
       posts[k].event = events[k].event /\ posts[k].data = events[k].data
  /\ webhook_url # "" => Len(posts) >= Len(events) - 1

\* C26 witness: the delivery of the first event failed, and the second event,
\* another one, has been posted after it.
C26_Witness ==
  /\ Len(events) = 2
  /\ Len(posts) = 2
  /\ posts[1].outcome = "ConnectError"
  /\ posts[1].event = "taskStarted"
  /\ posts[2].event = "taskCompleted"

\* The lifecycle state of the build, numbered in the order of the lifecycle:
\* 0 Created, 1 Started, 2 TasksPartitioned, 3 SandboxesReady, 4 TasksAssigned,
\* 5 Executing, 6 Merging (inside the step of process_merges), 7 Verifying (up
\* to the end of the teardown), 8 Completed, 9 Failed.
Lifecycle ==
  CASE pc = "idle" -> 0
    [] pc = "partition" -> 1
    [] pc = "create_main" -> 2
    [] pc = "create_build" ->
         IF Len(build_sandboxes) >= build_sandbox_count THEN 3 ELSE 2
    [] pc = "loop" -> IF Count(events, "taskStarted") = 0 THEN 4 ELSE 5
    [] pc = "exec" -> 5
    [] pc \in {"verify", "cleanup"} -> 7
    [] pc = "done" -> IF LastEvent.event = "completed" THEN 8 ELSE 9

\* C27: within a run the lifecycle only moves forward: no step goes to an
\* earlier state, so no state is entered twice, Completed is entered from
\* Verifying only, and Completed and Failed are left by no step of the run (the
\* next step of the instance, if any, is the start of another build).
C27_LifecycleMovesForward ==
  [][IF runs' # runs
     THEN pc \in {"idle", "done"} /\ Lifecycle' = 1
     ELSE /\ Lifecycle' >= Lifecycle
          /\ pc # "done"
          /\ Lifecycle' = 8 => Lifecycle = 7]_vars

\* C27 witness: a run that went through every state and ended Completed.
C27_Witness ==
  /\ pc = "done"
  /\ Lifecycle = 8
  /\ Count(events, "taskStarted") = 2
  /\ Len(merge_results) = 1

\* C28: completed is sent only after partitioning returned, the main sandbox
\* was created, the build loop stopped, the merge ran and the verifier ran, in
\* that order, and after the teardown of the build sandboxes; the merge never
\* starts while a started task has no terminal event.
C28_CompletedAfterAllPhases ==
  [][/\ (pc' = "verify" /\ pc # "verify") =>
          /\ pc = "loop"
          /\ UnfinishedStarts = {}
          /\ Count(events, "tasksPartitioned") = 1
          /\ main_sandbox # Unset
          /\ Len(merge_results') = Cardinality(SuccessPositions)
     /\ (pc' = "cleanup" /\ pc # "cleanup") =>
          /\ pc = "verify"
          /\ verification' # Unset
     /\ (pc' = "done" /\ pc # "done" /\ LastEvent'.event = "completed") =>
          /\ pc = "cleanup"
          /\ verification # Unset
          /\ BuildSandboxIds \subseteq Range(terminated)]_vars

\* C28 witness: a completed run of two build sandboxes, both torn down, after
\* two task results and a verifier that was not satisfied.
C28_Witness ==
  /\ EndedCompleted
  /\ Len(build_sandboxes) = 2
  /\ Len(terminated) = 2
  /\ Len(all_results) = 2
  /\ ~verification.satisfied

\* C29: during a run the cumulative cost never decreases, and once it has
\* reached the ceiling it stays there; the comparison is >=: a task that
\* brings the cost to the ceiling or over it is followed by budgetExceeded.
C29_BudgetMonotone ==
  [][runs' = runs =>
       /\ total_cost' >= total_cost
       /\ total_cost >= budget_limit_usd => total_cost' >= budget_limit_usd
       /\ (pc = "exec" /\ pc' = "loop" /\ total_cost' >= budget_limit_usd) =>
            LastEvent'.event = "budgetExceeded"]_vars

\* C29 witness: the cost has just reached the ceiling exactly and
\* budgetExceeded was sent.
C29_Witness ==
  /\ pc = "loop"
  /\ total_cost = budget_limit_usd
  /\ total_cost = 2
  /\ LastEvent.event = "budgetExceeded"

\* C30: a build-sandbox creation that raises, the main sandbox being created,
\* does not fail the build: no run ends with the failed result of that error;
\* the run goes on with the build sandboxes it has and ends with completed.
C30_BuildSandboxFailureNotFatal ==
  pc = "done" =>
    Get(returned, "error", "") # "create build sandbox failed"

\* C31: a run whose partitioning raised on a malformed plan ends failed at
\* once: no sandbox is created, no tasksPartitioned, sandboxCreated or task
\* event is sent, and the result has success = false, tasksCompleted = 0 and
\* tasksFailed = 0.
C31_PartitionErrorFailsAtOnce ==
  (pc = "done" /\ PartitionRaises(plan)) =>
    /\ EndedFailed
    /\ created = <<>>
    /\ main_sandbox = Unset /\ build_sandboxes = <<>>
    /\ events = <<events[1], events[2]>>
    /\ events[1].event = "started"
    /\ returned.success = FALSE
    /\ returned.tasksCompleted = 0
    /\ returned.tasksFailed = 0

\* The same statement for the first run of a new instance only.
C31_OnFreshInstance == runs = 1 => C31_PartitionErrorFailsAtOnce
\* ---------------------------------------------------------------- C32
\* C32: terminate is idempotent: a terminate request for a sandbox id that is
\* already terminated or was never created is answered with success, and it
\* leaves the registry as one terminate does (the id is not in it).
C32_TerminateIdempotent ==
  (/\ pc = "bridge_wait"
   /\ Get(request, "action", "") = "terminate"
   /\ ~NoString(request, "sandboxId")) =>
     /\ response.success
     /\ request.sandboxId \notin DOMAIN ACTIVE_SANDBOXES

\* What the code does keep: after any answered terminate the id is not in the
\* registry, and only a terminate of a registered id is answered with success.
C32_SecondTerminateNotFound ==
  (/\ pc = "bridge_wait"
   /\ Get(request, "action", "") = "terminate"
   /\ ~NoString(request, "sandboxId")) =>
     /\ request.sandboxId \notin DOMAIN ACTIVE_SANDBOXES
     /\ (~response.success => response = NotFound(request.sandboxId))

\* ---------------------------------------------------------------- C33
\* C33: when every external call returns or raises, every run of
\* run_orchestration that has started eventually sends its terminal event
\* (completed or failed) and returns a result with a boolean success field,
\* whatever the plan, the budget and the outcomes of the tasks.
C33_EveryRunReturns ==
  (pc \notin {"idle", "done"}) ~>
    (/\ pc = "done"
     /\ returned # Unset
     /\ returned.success \in BOOLEAN
     /\ LastEvent.event \in {"completed", "failed"})

\* A run with a successful and a failed task that spent its budget has returned.
C33_Witness ==
  /\ pc = "done"
  /\ returned # Unset
  /\ NumResults(all_results, TRUE) >= 1
  /\ NumResults(all_results, FALSE) >= 1
  /\ Count(events, "budgetExceeded") >= 1

\* ---------------------------------------------------------------- C34
\* C34: teardown touches build sandboxes only.  terminate is never called on
\* the main sandbox; when run_orchestration has returned the completed result
\* the main sandbox has been created, is still running, and mainSandboxUrl of
\* the result is its tunnel URL.
C34_MainSandboxSurvives ==
  /\ SandboxId(build_id, "main") \notin Range(terminated)
  /\ Range(terminated) \subseteq BuildSandboxIds
  /\ EndedCompleted =>
       /\ main_sandbox # Unset
       /\ main_sandbox.id = SandboxId(build_id, "main")
       /\ main_sandbox.id \in Range(created) \ Range(terminated)
       /\ main_sandbox.status = "running"
       /\ returned.mainSandboxUrl = main_sandbox.tunnelUrl

\* A run has completed after tearing down two build sandboxes.
C34_Witness ==
  /\ EndedCompleted
  /\ Len(terminated) >= 2
  /\ Range(terminated) = BuildSandboxIds

\* ---------------------------------------------------------------- C35
\* C35: when one KriptikOrchestrator instance runs several builds one after
\* another, every run starts with empty completed and failed lists, and the
\* tasksCompleted and tasksFailed of its result count the tasks of that run
\* only.
C35_EachRunCountsItsOwnTasks ==
  /\ pc = "partition" => (completed_tasks = <<>> /\ failed_tasks = <<>>)
  /\ (pc = "done" /\ returned # Unset) =>
       /\ returned.tasksCompleted = NumResults(all_results, TRUE)
       /\ returned.tasksFailed = NumResults(all_results, FALSE)

\* The same statement for the first run of a new instance only.
C35_OnFreshInstance == runs <= 1 => C35_EachRunCountsItsOwnTasks

\* ---------------------------------------------------------------- C36
DistinctTaskIds ==
  \A i, j \in 1..Len(tasks) : tasks[i].id = tasks[j].id => i = j
NoDuplicates(seq) == \A i, j \in 1..Len(seq) : seq[i] = seq[j] => i = j
StartedTaskIds ==
  {events[i].data.taskId : i \in {k \in 1..Len(events) : events[k].event = "taskStarted"}}

\* C36: in every state of the first run of a new orchestrator whose tasks have
\* distinct ids, the completed and failed lists are disjoint, hold no id
\* twice, hold only ids of tasks whose taskStarted was sent, and together are
\* no longer than the list of partitioned tasks.
C36_ListsPartitionStartedTasks ==
  (runs = 1 /\ DistinctTaskIds) =>
    /\ Range(completed_tasks) \cap Range(failed_tasks) = {}
    /\ NoDuplicates(completed_tasks)
    /\ NoDuplicates(failed_tasks)
    /\ Range(completed_tasks) \cup Range(failed_tasks) \subseteq StartedTaskIds
    /\ Len(completed_tasks) + Len(failed_tasks) <= Len(tasks)

\* Three tasks with distinct ids have returned, some completed and some failed.
C36_Witness ==
  /\ runs = 1
  /\ DistinctTaskIds
  /\ Len(tasks) = MaxTasks
  /\ Len(completed_tasks) + Len(failed_tasks) = Len(tasks)
  /\ completed_tasks # <<>>
  /\ failed_tasks # <<>>

\* ---------------------------------------------------------------- C37
\* The request just answered is exec, get_tunnel or terminate for a sandbox id.
AnsweredUseOf(sandbox_id) ==
  /\ pc = "bridge_wait"
  /\ response # Unset
  /\ Get(request, "action", "") \in {"exec", "get_tunnel", "terminate"}
  /\ Get(request, "sandboxId", "") = sandbox_id

\* C37: after a create request for S succeeded and until a terminate for S
\* succeeded, an exec, get_tunnel or terminate request for S is not answered
\* with "Sandbox S not found", also when every request is served by its own
\* bridge process.
C37_CreatedSandboxIsFound ==
  \A s \in {"s1", "s2"} :
    (AnsweredUseOf(s) /\ response = NotFound(s)) => Get(lifecycle, s, "") # "create"

\* ---------------------------------------------------------------- C38
UseActions == {"exec", "get_tunnel", "terminate"}
RequestedId == Get(request, "sandboxId", "")

\* handle_request is answering the request (one step of the process).
Answering == pc = "bridge_handle" /\ pc' # "bridge_handle"

\* The request passes the handler's own checks of its fields (lines 141-142,
\* 203-207, 277-278, 313-314).
FieldsGiven ==
  /\ ~NoString(request, "sandboxId")
  /\ Get(request, "action", "") = "exec" => ~NoList(request, "command")

\* An id is in the registry exactly when its latest successful lifecycle
\* request was a create.
RegistryFollowsLifecycle ==
  /\ DOMAIN ACTIVE_SANDBOXES \subseteq {"s1", "s2"}
  /\ \A s \in {"s1", "s2"} :
       s \in DOMAIN ACTIVE_SANDBOXES <=> Get(lifecycle, s, "") = "create"

\* exec, get_tunnel and any failing request leave the registry unchanged.
RegistryKept ==
  (/\ Answering
   /\ \/ Get(request, "action", "") \in {"exec", "get_tunnel"}
      \/ pc' = "bridge_raised"
      \/ ~response'.success)
    => ACTIVE_SANDBOXES' = ACTIVE_SANDBOXES

\* C38 as stated: within one bridge process the registry follows the
\* lifecycle; every exec, get_tunnel and terminate request for an id is
\* answered "not found" exactly when the id is not in the registry; exec,
\* get_tunnel and failing requests leave the registry unchanged.
C38_AsStated ==
  /\ []RegistryFollowsLifecycle
  /\ [][/\ (/\ Answering
            /\ Get(request, "action", "") \in UseActions
            /\ ~NoString(request, "sandboxId")) =>
             ((pc' = "bridge_wait" /\ response' = NotFound(RequestedId))
                <=> RequestedId \notin DOMAIN ACTIVE_SANDBOXES)
        /\ RegistryKept]_vars

\* C38: the same, where "exactly when" is said of the exec, get_tunnel and
\* terminate requests that carry a sandboxId and, for exec, a command.
C38_NotFoundIffUnregistered ==
  /\ []RegistryFollowsLifecycle
  /\ [][/\ (Answering /\ Get(request, "action", "") \in UseActions /\ FieldsGiven) =>
             ((pc' = "bridge_wait" /\ response' = NotFound(RequestedId))
                <=> RequestedId \notin DOMAIN ACTIVE_SANDBOXES)
        /\ RegistryKept]_vars

\* s1 was created and terminated, and a later exec of s1 with a command was
\* answered "not found".
C38_Witness ==
  /\ AnsweredUseOf("s1")
  /\ request.action = "exec"
  /\ FieldsGiven
  /\ response = NotFound("s1")
  /\ Get(lifecycle, "s1", "") = "terminate"

\* ---------------------------------------------------------------- C39
\* The answer of handle_request to the request: a response with a boolean
\* success, an error with success = false, and the registry untouched when
\* the request is rejected for its action or its missing sandboxId.
AnswersWithResponse ==
  /\ pc' = "bridge_wait"
  /\ response'.success \in BOOLEAN
  /\ ~response'.success => "error" \in DOMAIN response'
  /\ (\/ Get(request, "action", "") \notin BridgeActions
      \/ NoString(request, "sandboxId"))
       => (~response'.success /\ ACTIVE_SANDBOXES' = ACTIVE_SANDBOXES)

\* C39: handle_request never raises: every request is answered with a
\* response whose success is a boolean, success = false comes with an error,
\* and a request rejected for a missing or unknown action or a missing
\* sandboxId leaves the registry unchanged.
C39_HandleRequestNeverRaises == [][Answering => AnswersWithResponse]_vars

\* The same for the requests whose action is a string or is missing.
C39_WhenActionIsHashable ==
  [][(Answering /\ Get(request, "action", "") # JsonList) => AnswersWithResponse]_vars

\* ---------------------------------------------------------------- C40
\* The i-th result is of a failing task marked critical.
FailedCritical(i) ==
  ~batch_results[i].success /\ Get(batch_tasks[i], "critical", FALSE)

\* C40: execute_batch_tasks runs the tasks in list order and returns one
\* result per executed task in that order; it stops right after the first
\* failing task marked critical, whose result is the last one returned, and a
\* failing task not marked critical does not stop it.
C40_BatchStopsAtCriticalFailure ==
  /\ Len(batch_results) <= Len(batch_tasks)
  /\ \A i \in 1..Len(batch_results) :
       /\ batch_results[i].task_id = batch_tasks[i].task_id
       /\ batch_results[i].action = batch_tasks[i].action
       /\ FailedCritical(i) => (i = Len(batch_results) /\ pc = "batch_returned")
  /\ pc = "batch_returned" =>
       \/ Len(batch_results) = Len(batch_tasks)
       \/ FailedCritical(Len(batch_results))

\* A batch of three: the first task failed and was not critical, the second
\* failed and was critical, the third was not run.
C40_Witness ==
  /\ pc = "batch_returned"
  /\ Len(batch_tasks) = 3
  /\ Len(batch_results) = 2
  /\ ~batch_results[1].success
  /\ ~FailedCritical(1)
  /\ FailedCritical(2)

====
